---- MODULE Spec2Model ----
(***************************************************************************)
(* A model of printtopdf: the per-domain loop of main.py driving one       *)
(* WebCrawler (crawler.py), whose capture_screenshot navigates a browser   *)
(* session, captures the page (natively, in one snapshot, or by stitching  *)
(* tiles) and recovers from page-load timeouts and driver errors.          *)
(*                                                                         *)
(* The browser is the environment: every command sent to it either         *)
(* succeeds or raises one of the exception classes the code tells apart    *)
(* (TimeoutException, JavascriptException, another WebDriverException, any *)
(* other Exception).  A command sent to a terminated session never         *)
(* succeeds.                                                               *)
(*                                                                         *)
(* Spec is the run of main.  Two functions are modelled on their own:      *)
(* SuppressSpec runs the script of _pause_videos_and_animations on a       *)
(* document, and ParseSpec runs SitemapParser.process_urls_file on the     *)
(* lines of a urls file.                                                   *)
(***************************************************************************)
EXTENDS Integers, Sequences, FiniteSets, TLC

(***************************************************************************)
(* Bounds of the model.                                                    *)
(***************************************************************************)
\* The browser sessions that can be live at once (the machine's capacity: a
\* session is started only below it).
MaxLive == 2

(***************************************************************************)
(* Constants of the program.                                               *)
(***************************************************************************)
DefaultPageLoadTimeout == 180
RetryPageLoadTimeout == 240
SingleShotMaxHeight == 16000
StitchHeight == 15000
StitchWideHeight == 10000
StitchWideWidth == 1920
RetryMaxHeight == 15000
ViewportMaxWidth == 1920
ViewportHeight == 1080
Overlap == 300
BlankWidth == 1920
BlankHeight == 1080

(***************************************************************************)
(* Inputs the model draws from.                                            *)
(***************************************************************************)
\* WebCrawler(page_load_timeout=...): the default (the one main.py uses) and a
\* value above the timeout of the retry.
PageLoadTimeouts == {DefaultPageLoadTimeout, 300}
\* --browser, click.Choice(["chrome", "firefox"])
Browsers == {"chrome", "firefox"}
\* URLs a sitemap may list: a file with a static extension (in upper case), a
\* page under a static directory, and a page whose query string (not its path)
\* ends in a static extension.
Urls ==
    { "https://ex.com/logo.PNG",
      "https://ex.com/img/team",
      "https://ex.com/blog?f=a.png" }
\* The sizes <<width, height>> of the documents the browser loads: a short
\* page, the tallest page that is not stitched for its height, the shortest one
\* that is, and a wide page above the height at which wide pages are stitched.
Pages == {<<1280, 900>>, <<1280, 15000>>, <<1280, 15001>>, <<2000, 12000>>}
\* The rows a snapshot can lose to the window decoration.
ChromeHeights == {120}

\* The URL lists process_urls_file can return for a domain: a static resource
\* before a page, a page before a static resource, and the same page twice.
UrlLists ==
    { << "https://ex.com/logo.PNG", "https://ex.com/blog?f=a.png" >>,
      << "https://ex.com/blog?f=a.png", "https://ex.com/img/team" >>,
      << "https://ex.com/blog?f=a.png", "https://ex.com/blog?f=a.png" >> }

ExcKinds == {"timeout", "js", "wde", "other"}

(***************************************************************************)
(* Strings: str.lower, str.endswith, the in operator, urlparse(url).path.  *)
(***************************************************************************)
UpperChars == "ABCDEFGHIJKLMNOPQRSTUVWXYZ"
LowerChars == "abcdefghijklmnopqrstuvwxyz"

CharAt(s, i) == SubSeq(s, i, i)

LowerChar(c) ==
    IF \E i \in 1..Len(UpperChars) : CharAt(UpperChars, i) = c
    THEN CharAt(LowerChars, CHOOSE i \in 1..Len(UpperChars) : CharAt(UpperChars, i) = c)
    ELSE c

RECURSIVE Lower(_)
Lower(s) ==
    IF Len(s) = 0 THEN ""
    ELSE LowerChar(CharAt(s, 1)) \o Lower(SubSeq(s, 2, Len(s)))

EndsWith(s, suffix) ==
    /\ Len(s) >= Len(suffix)
    /\ SubSeq(s, Len(s) - Len(suffix) + 1, Len(s)) = suffix

Contains(s, part) ==
    \E i \in 1..(Len(s) - Len(part) + 1) : SubSeq(s, i, i + Len(part) - 1) = part

\* The first index >= from at which one of the characters of stops occurs in s,
\* Len(s) + 1 when there is none.
FirstOf(s, from, stops) ==
    LET hits == {i \in from..Len(s) : CharAt(s, i) \in stops}
    IN  IF hits = {} THEN Len(s) + 1
        ELSE CHOOSE i \in hits : \A j \in hits : i <= j

\* urlparse(url).path for a URL scheme://netloc/path?query#fragment
UrlPath(u) ==
    LET schemeEnd == CHOOSE i \in 1..Len(u) : SubSeq(u, i, i + 2) = "://"
        netlocStart == schemeEnd + 3
        pathStart == FirstOf(u, netlocStart, {"/", "?", "#"})
        pathEnd == FirstOf(u, pathStart, {"?", "#"})
    IN  SubSeq(u, pathStart, pathEnd - 1)

static_extensions ==
    { ".png", ".jpg", ".jpeg", ".gif", ".bmp", ".svg", ".ico", ".webp",
      ".css", ".js", ".json", ".xml", ".pdf", ".doc", ".docx", ".xls", ".xlsx",
      ".zip", ".rar", ".tar", ".gz", ".mp3", ".mp4", ".avi", ".mov", ".wmv",
      ".woff", ".woff2", ".ttf", ".eot", ".otf" }

static_dirs ==
    { "/wp-content/uploads/", "/images/", "/img/", "/css/", "/js/",
      "/assets/", "/static/", "/media/", "/fonts/", "/downloads/" }

_is_resource_url(u) ==
    LET path == Lower(UrlPath(u))
    IN  \/ \E ext \in static_extensions : EndsWith(path, ext)
        \/ \E directory \in static_dirs : Contains(path, directory)

Min(a, b) == IF a <= b THEN a ELSE b
Max(a, b) == IF a >= b THEN a ELSE b


(***************************************************************************)
(* State.                                                                  *)
(***************************************************************************)
VARIABLES
    page_load_timeout,  \* WebCrawler.page_load_timeout
    browser_type,       \* WebCrawler.browser_type
    mpc,                \* main: where the run is
    urls,               \* main: the URL list of the current domain
    i,                  \* main: the URLs of the list the page loop has taken
    captured,           \* the URLs passed to capture_screenshot for this domain
    individual_pdfs,    \* main: the URLs whose PDF was written, in order; their
                        \* paths in the run of main with its files
    driver,             \* WebCrawler.driver of the current domain's crawler: the
                        \* state of the session it refers to and that session's
                        \* page-load timeout; "none" while the domain has no crawler
    orphans,            \* the live sessions started for the current domain that
                        \* its crawler does not refer to
    strays,             \* the live sessions left behind by earlier domains
    cpc,                \* capture_screenshot: where the call is
    url,                \* capture_screenshot: its argument
    fresh,              \* whether this call has replaced self.driver
    handler,            \* the except clause this call has entered, "none" before
    page,               \* the size of the document the browser has loaded
    total,              \* total_width, total_height
    win,                \* the last window size this call asked for
    image,              \* the size of the last snapshot taken
    full_screenshot,    \* stitching: the size of the composite
    offset,             \* stitching: offset
    last_scrolled_pos,  \* stitching: last_scrolled_pos
    tiles,              \* stitching: the tiles captured by this call
    pasted,             \* stitching: the rows the last paste wrote, <<from, to>>
    log,                \* this call's navigations, session ends and creations
    steps,              \* the steps of the normal flow this call has completed
    result,             \* what the last capture_screenshot call ended with
    dom,                \* the document the suppression script runs on
    runs,               \* the runs of the suppression script on that document
    ppc,                \* process_urls_file: where the call is
    sitemap_urls,       \* process_urls_file: the lines of the urls file
    taken,              \* process_urls_file: the lines the loop has taken
    results,            \* process_urls_file: results, domain -> list of URLs
    tiled,              \* stitching on its own: the tiles pasted, <<y, height>>
    ideal,              \* stitching on its own: every position read back so far
                        \* is the requested one cut to the last viewport, and
                        \* every tile is one viewport high
    hpc,                \* height stability: where the stage is
    previous_height,    \* height stability: previous_height
    current_height,     \* height stability: current_height
    elapsed,            \* height stability: time.time() - start_time, in seconds
    samples,            \* height stability: the samples taken inside the loop
    bpc,                \* main with its files: where the run is
    clean,              \* main: --clean / --no-clean
    skip_final_merge,   \* main: --skip-final-merge / --do-final-merge
    domain_urls,        \* main: the dictionary of the parser, as the sequence of
                        \* its items <<domain, urls>>
    taken_domains,      \* main: the items the domain loop has taken
    domain_key,         \* main: domain, the key of the current item
    pdf_path,           \* main: pdf_path of the current page
    all_merged_pdfs,    \* main: all_merged_pdfs
    valid_merged_pdfs,  \* main: valid_merged_pdfs of the final merge
    files,              \* the files under the output directory: path -> what
                        \* the file holds ("" for an empty file)
    merged_ok           \* the domains whose merged PDF was created, in order

cfgVars == <<page_load_timeout, browser_type>>
listVars == <<urls, i, captured, individual_pdfs>>
mainVars == <<mpc, listVars>>
sessVars == <<driver, orphans, strays>>
stitchVars == <<full_screenshot, offset, last_scrolled_pos, tiles, pasted>>
callVars == <<cpc, url, fresh, handler, page, total, win, image, log, steps, result>>
domVars == <<dom, runs>>
\* What the run of main leaves alone.
parserVars == <<ppc, sitemap_urls, taken, results>>
coverVars == <<tiled, ideal>>
heightVars == <<hpc, previous_height, current_height, elapsed, samples>>
\* The variables of the parts modelled on their own after the stitching.
batchVars ==
    <<bpc, clean, skip_final_merge, domain_urls, taken_domains, domain_key,
      pdf_path,
      all_merged_pdfs, valid_merged_pdfs, files, merged_ok>>
otherVars == <<heightVars, batchVars>>
pureVars == <<domVars, parserVars, coverVars, otherVars>>
vars == <<cfgVars, mainVars, sessVars, stitchVars, callVars, pureVars>>

NoSize == <<0, 0>>
NoResult == [kind |-> "none", w |-> 0, h |-> 0, via |-> "none"]
ImageResult(size, via) == [kind |-> "image", w |-> size[1], h |-> size[2], via |-> via]
Raised(k) == [kind |-> "raised", w |-> 0, h |-> 0, via |-> k]

NoSession == [st |-> "none", plt |-> 0]
\* A terminated session has no page-load timeout any more.
Dead == [st |-> "dead", plt |-> 0]

\* The sessions that are live: created and not terminated.
LiveCount == strays + orphans + (IF driver.st = "live" THEN 1 ELSE 0)

\* What a command sent to the crawler's session can end with.
Outcomes ==
    IF driver.st = "live" THEN {"ok"} \cup ExcKinds ELSE {"wde", "other"}

\* No document is under the suppression script.
NoDom == [video |-> "none", iframe |-> "", carousel |-> "none", sheets |-> 0,
          popup |-> "none", header |-> "none"]

NoSuppression ==
    /\ dom = NoDom
    /\ runs = 0

\* {}: the dictionary without a key
NoResults == [d \in {} |-> <<>>]

\* No call of process_urls_file is under way.
NoParsing ==
    /\ ppc = "idle"
    /\ sitemap_urls = <<>>
    /\ taken = 0
    /\ results = NoResults

\* The tiles of a stitching are not followed.
NoCoverage ==
    /\ tiled = <<>>
    /\ ideal = TRUE

\* The height-stability stage is not under way.
NoHeightPoll ==
    /\ hpc = "idle"
    /\ previous_height = -1
    /\ current_height = -1
    /\ elapsed = 0
    /\ samples = 0

\* No file under the output directory.
NoFiles == [p \in {} |-> ""]

\* main with its files is not under way.
NoBatch ==
    /\ bpc = "idle"
    /\ clean = TRUE
    /\ skip_final_merge = FALSE
    /\ domain_urls = <<>>
    /\ taken_domains = 0
    /\ domain_key = ""
    /\ pdf_path = ""
    /\ all_merged_pdfs = <<>>
    /\ valid_merged_pdfs = <<>>
    /\ files = NoFiles
    /\ merged_ok = <<>>

\* None of the parts modelled on their own after the stitching is under way.
NoOther == NoHeightPoll /\ NoBatch

\* main before its first domain: no crawler, no call of capture_screenshot.
NotStarted ==
    /\ mpc = "start"
    /\ urls = <<>>
    /\ i = 0
    /\ captured = <<>>
    /\ individual_pdfs = <<>>
    /\ driver = NoSession
    /\ orphans = 0
    /\ strays = 0
    /\ cpc = "idle"
    /\ url = ""
    /\ fresh = FALSE
    /\ handler = "none"
    /\ page = NoSize
    /\ total = NoSize
    /\ win = NoSize
    /\ image = NoSize
    /\ full_screenshot = NoSize
    /\ offset = 0
    /\ last_scrolled_pos = -1
    /\ tiles = 0
    /\ pasted = NoSize
    /\ log = <<>>
    /\ steps = <<>>
    /\ result = NoResult

Init ==
    /\ page_load_timeout \in PageLoadTimeouts
    /\ browser_type \in Browsers
    /\ NotStarted
    /\ NoSuppression
    /\ NoParsing
    /\ NoCoverage
    /\ NoOther

(***************************************************************************)
(* WebCrawler._init_browser and WebCrawler.close.                          *)
(***************************************************************************)
\* _init_browser ends in one of three ways: "created", the new session is
\* returned with its page-load timeout set; "leaked", the session was started
\* and set_page_load_timeout or implicitly_wait raised, so the exception is
\* re-raised and nobody holds the session; "failed", no session was started.
InitOutcomes ==
    IF LiveCount < MaxLive THEN {"created", "leaked", "failed"} ELSE {"failed"}

\* driver.set_page_load_timeout(self.page_load_timeout); return driver
_init_browser == [st |-> "live", plt |-> page_load_timeout]

\* The sessions nobody refers to after _init_browser ended with o, when the
\* caller's self.driver referred to the session old.
Orphaned(o, old) ==
    orphans + (IF o = "leaked" THEN 1 ELSE 0)
            + (IF o = "created" /\ old.st = "live" THEN 1 ELSE 0)

\* close swallows what quit raises.  A quit that raised may or may not have
\* ended the browser: "ok" and "error_dead" leave the session dead,
\* "error_live" leaves it running.
CloseOutcomes ==
    IF driver.st = "live" THEN {"ok", "error_dead", "error_live"}
    ELSE {"ok", "error_dead"}

\* if self.driver: try: self.driver.quit() except Exception: logger.warning
close(o) == IF o = "error_live" THEN driver ELSE Dead

(***************************************************************************)
(* main: the per-domain block.                                             *)
(***************************************************************************)
\* The locals of capture_screenshot and of the stitching, as before a call;
\* the record of the normal flow's steps ends with the normal flow.
ResetLocals ==
    /\ steps' = <<>>
    /\ total' = NoSize
    /\ win' = NoSize
    /\ image' = NoSize
    /\ full_screenshot' = NoSize
    /\ offset' = 0
    /\ last_scrolled_pos' = -1
    /\ tiles' = 0
    /\ pasted' = NoSize

ResetCall ==
    /\ ResetLocals
    /\ url' = ""
    /\ fresh' = FALSE
    /\ handler' = "none"
    /\ page' = NoSize
    /\ log' = <<>>
    /\ result' = NoResult

\* for domain, urls in domain_urls.items(): the dictionary process_urls_file
\* returned is not empty, so the loop takes a first domain, and after a domain
\* it may hold another.  The crawler of the domain before is out of reach: a
\* session it left live stays live.
DomainStart ==
    /\ mpc \in {"start", "domain_loop"}
    /\ strays' = LiveCount
    /\ orphans' = 0
    /\ driver' = NoSession
    /\ mpc' = "domain_setup"
    /\ \E list \in UrlLists : urls' = list
    /\ i' = 0
    /\ captured' = <<>>
    /\ individual_pdfs' = <<>>
    /\ UNCHANGED <<pureVars, cfgVars, stitchVars, callVars>>

\* clean_domain_name, rmtree, mkdir, PDFGenerator(): done, or an exception that
\* the per-domain handler catches
DomainSetup ==
    /\ mpc = "domain_setup"
    /\ mpc' \in {"crawler_init", "domain_except"}
    /\ UNCHANGED <<pureVars, cfgVars, listVars, sessVars, stitchVars, callVars>>

\* crawler = WebCrawler(...): __init__ runs self.driver = self._init_browser()
CrawlerInit ==
    /\ mpc = "crawler_init"
    /\ \E o \in InitOutcomes :
        /\ orphans' = Orphaned(o, driver)
        /\ IF o = "created"
           THEN /\ driver' = _init_browser
                /\ mpc' = "page_first"
           ELSE /\ driver' = driver
                /\ mpc' = "domain_except"
    /\ UNCHANGED <<pureVars, cfgVars, listVars, strays, stitchVars, callVars>>

\* for i, page_url in enumerate(urls): the next URL of the list;
\* screenshot = crawler.capture_screenshot(page_url)
PageStart ==
    /\ mpc \in {"page_first", "page_loop"}
    /\ i < Len(urls)
    /\ i' = i + 1
    /\ mpc' = "in_capture"
    /\ cpc' = "entry"
    /\ url' = urls[i']
    /\ captured' = Append(captured, url')
    /\ UNCHANGED <<pureVars, cfgVars, urls, individual_pdfs, sessVars, stitchVars,
                   fresh, handler, page, total, win, image, log, steps, result>>

\* capture_screenshot returned an image: image_to_pdf writes the page's PDF or
\* raises; either way the loop goes on
PagePdf ==
    /\ mpc = "in_capture"
    /\ cpc = "done"
    /\ result.kind = "image"
    /\ \/ individual_pdfs' = Append(individual_pdfs, url)
       \/ individual_pdfs' = individual_pdfs
    /\ cpc' = "idle"
    /\ mpc' = "page_loop"
    /\ ResetCall
    /\ UNCHANGED <<pureVars, cfgVars, urls, i, captured, sessVars>>

\* A plausible slip: the page loop without a try of its own, so that what
\* capture_screenshot raises reaches the handler of the domain.
PageExceptAborts ==
    /\ mpc = "in_capture"
    /\ cpc = "done"
    /\ result.kind = "raised"
    /\ cpc' = "idle"
    /\ mpc' = "domain_except"
    /\ ResetCall
    /\ UNCHANGED <<pureVars, cfgVars, listVars, sessVars>>

\* capture_screenshot raised: except Exception of the page loop
PageExcept ==
    /\ mpc = "in_capture"
    /\ cpc = "done"
    /\ result.kind = "raised"
    /\ cpc' = "idle"
    /\ mpc' = "page_loop"
    /\ ResetCall
    /\ UNCHANGED <<pureVars, cfgVars, listVars, sessVars>>

\* the list is exhausted: filter_valid_pdfs, merge_pdfs, getsize, click.echo;
\* done, or an exception that the per-domain handler catches
DomainMerge ==
    /\ mpc = "page_loop"
    /\ i = Len(urls)
    /\ mpc' \in {"close", "domain_except"}
    /\ UNCHANGED <<pureVars, cfgVars, listVars, sessVars, stitchVars, callVars>>

\* crawler.close()
DomainClose ==
    /\ mpc = "close"
    /\ \E o \in CloseOutcomes : driver' = close(o)
    /\ mpc' = "domain_end"
    /\ UNCHANGED <<pureVars, cfgVars, listVars, orphans, strays, stitchVars, callVars>>

\* except Exception as e: logger.error(...)
DomainExcept ==
    /\ mpc = "domain_except"
    /\ mpc' = "domain_end"
    /\ UNCHANGED <<pureVars, cfgVars, listVars, sessVars, stitchVars, callVars>>

\* the per-domain block is over: the loop goes on
DomainEnd ==
    /\ mpc = "domain_end"
    /\ mpc' = "domain_loop"
    /\ UNCHANGED <<pureVars, cfgVars, listVars, sessVars, stitchVars, callVars>>

\* the dictionary is exhausted: the final merge, and the run ends
FinalMerge ==
    /\ mpc = "domain_loop"
    /\ mpc' = "done"
    /\ UNCHANGED <<pureVars, cfgVars, listVars, sessVars, stitchVars, callVars>>

(***************************************************************************)
(* WebCrawler.capture_screenshot: the normal flow.                         *)
(***************************************************************************)
callFixed == <<pureVars, cfgVars, mainVars, url, fresh, handler>>

\* The except clause of capture_screenshot's try that catches an exception of
\* kind k raised in the try body: TimeoutException, WebDriverException (of
\* which JavascriptException is one), Exception.
HandlerPc(k) ==
    CASE k = "timeout" -> "to_set"
      [] k \in {"js", "wde"} -> "de_close"
      [] OTHER -> "ex_blank"

\* The snapshot of a window asked to be h high: all of it, all but the window
\* decoration, or no more than one screen.
ShotHeights(h) ==
    {h, Min(h, ViewportHeight)} \cup {Max(1, h - c) : c \in ChromeHeights}

\* A command of the try body that changes nothing the model keeps; step is
\* the step of the normal flow that is complete when the command has passed.
Command(from, to, swallowed, step) ==
    /\ cpc = from
    /\ \E o \in Outcomes :
        IF o = "ok" \/ o \in swallowed
        THEN /\ cpc' = to
             /\ steps' = steps \o step
        ELSE /\ cpc' = HandlerPc(o)
             /\ steps' = steps
    /\ UNCHANGED <<callFixed, sessVars, stitchVars, page, total, win, image, log,
                   result>>

\* A plausible slip: the placeholder of a static URL returned only after the
\* URL was loaded.
CaptureEntryLoadsFirst ==
    /\ cpc = "entry"
    /\ IF _is_resource_url(url)
       THEN /\ result' = ImageResult(<<1, 1>>, "static")
            /\ log' = Append(log, <<"get", fresh>>)
            /\ \E p \in Pages : page' = p
            /\ cpc' = "done"
       ELSE /\ result' = result
            /\ log' = log
            /\ page' = page
            /\ cpc' = "get"
    /\ UNCHANGED <<callFixed, steps, sessVars, stitchVars, total, win, image>>

\* if self._is_resource_url(url): return Image.new('RGB', (1, 1), ...)
CaptureEntry ==
    /\ cpc = "entry"
    /\ IF _is_resource_url(url)
       THEN /\ result' = ImageResult(<<1, 1>>, "static")
            /\ cpc' = "done"
       ELSE /\ result' = result
            /\ cpc' = "get"
    /\ UNCHANGED <<callFixed, steps, sessVars, stitchVars, page, total, win, image, log>>

\* self.driver.get(url)
Navigate ==
    /\ cpc = "get"
    /\ log' = Append(log, <<"get", fresh>>)
    /\ \E o \in Outcomes :
        IF o = "ok"
        THEN /\ \E p \in Pages : page' = p
             /\ steps' = Append(steps, "navigate")
             /\ cpc' = "has_media"
        ELSE /\ page' = page
             /\ steps' = steps
             /\ cpc' = HandlerPc(o)
    /\ UNCHANGED <<callFixed, sessVars, stitchVars, total, win, image, result>>

\* A plausible slip: the readiness probe left out of the normal flow.
HasMediaSkipsProbe == Command("has_media", "pause", ExcKinds, <<"wait">>)

\* time.sleep(self.wait_time); self._has_media_elements(), which catches every
\* Exception
HasMedia == Command("has_media", "probe_ready", ExcKinds, <<"wait">>)

\* _wait_for_page_load_completion, stage 1: WebDriverWait(...).until(readyState),
\* except TimeoutException
ProbeReady == Command("probe_ready", "probe_images", {"timeout"}, <<>>)

\* stage 2: images, except Exception
ProbeImages == Command("probe_images", "probe_loading", ExcKinds, <<>>)

\* stage 3: loading indicators, except Exception
ProbeLoading == Command("probe_loading", "probe_height", ExcKinds, <<>>)

\* stage 4: height stability, except Exception
ProbeHeight == Command("probe_height", "probe_ajax", ExcKinds, <<>>)

\* stage 5: AJAX, except Exception
ProbeAjax == Command("probe_ajax", "pause", ExcKinds, <<"probe">>)

\* self._pause_videos_and_animations(), except JavascriptException
PauseMedia == Command("pause", "native", {"js"}, <<"suppress">>)

\* A plausible slip: the native capture without a try of its own, so that
\* what it raises reaches the except clauses of capture_screenshot.
NativeCaptureUnguarded ==
    /\ cpc = "native"
    /\ IF browser_type = "firefox"
       THEN \E o \in Outcomes :
                IF o = "ok"
                THEN /\ image' = page
                     /\ result' = ImageResult(page, "native")
                     /\ steps' = steps \o <<"settle", "capture">>
                     /\ cpc' = "done"
                ELSE /\ UNCHANGED <<image, result>>
                     /\ steps' = Append(steps, "settle")
                     /\ cpc' = HandlerPc(o)
       ELSE /\ UNCHANGED <<image, result>>
            /\ steps' = Append(steps, "settle")
            /\ cpc' = "dims"
    /\ UNCHANGED <<callFixed, sessVars, stitchVars, page, total, win, log>>

\* time.sleep(2); if firefox: try get_full_page_screenshot_as_png, return image;
\* except Exception: continue with the dimensions
NativeCapture ==
    /\ cpc = "native"
    /\ IF browser_type = "firefox"
       THEN \E o \in Outcomes :
                IF o = "ok"
                THEN /\ image' = page
                     /\ result' = ImageResult(page, "native")
                     /\ steps' = steps \o <<"settle", "capture">>
                     /\ cpc' = "done"
                ELSE /\ UNCHANGED <<image, result>>
                     /\ steps' = Append(steps, "settle")
                     /\ cpc' = "dims"
       ELSE /\ UNCHANGED <<image, result>>
            /\ steps' = Append(steps, "settle")
            /\ cpc' = "dims"
    /\ UNCHANGED <<callFixed, sessVars, stitchVars, page, total, win, log>>

\* total_width, total_height = self._get_page_dimensions()
GetDimensions ==
    /\ cpc = "dims"
    /\ \E o \in Outcomes :
        IF o = "ok"
        THEN /\ total' = page
             /\ cpc' = "resize"
        ELSE /\ total' = total
             /\ cpc' = HandlerPc(o)
    /\ UNCHANGED <<callFixed, steps, sessVars, stitchVars, page, win, image, log, result>>

\* view_height = min(total_height, 16000); set_window_size(total_width, view_height)
ResizeWindow ==
    /\ cpc = "resize"
    /\ \E o \in Outcomes :
        IF o = "ok"
        THEN /\ win' = <<total[1], Min(total[2], SingleShotMaxHeight)>>
             /\ cpc' = "scroll_top"
        ELSE /\ win' = win
             /\ cpc' = HandlerPc(o)
    /\ UNCHANGED <<callFixed, steps, sessVars, stitchVars, page, total, image, log, result>>

\* A plausible slip: the height test of the stitching decision off by the
\* comparison (>= for >).
UseStitchingAtThreshold(w, h) ==
    h >= StitchHeight \/ (w > StitchWideWidth /\ h > StitchWideHeight)

\* A plausible slip: the height test made against the cap of the window height
\* (16000) instead of 15000.
UseStitchingAboveWindowCap(w, h) ==
    h > SingleShotMaxHeight \/ (w > StitchWideWidth /\ h > StitchWideHeight)

\* if total_height > 15000 or (total_width > 1920 and total_height > 10000)
UseStitching(w, h) ==
    h > StitchHeight \/ (w > StitchWideWidth /\ h > StitchWideHeight)

\* window.scrollTo(0, 0), then the decision between stitching and one snapshot
ScrollTop ==
    /\ cpc = "scroll_top"
    /\ \E o \in Outcomes :
        cpc' = IF o = "ok"
               THEN IF UseStitching(total[1], total[2]) THEN "st_resize" ELSE "shot"
               ELSE HandlerPc(o)
    /\ UNCHANGED <<callFixed, steps, sessVars, stitchVars, page, total, win, image, log,
                   result>>

\* A plausible slip: a snapshot taken for truncated as soon as it is lower
\* than the page.
TruncatedBelowFull(img_height, total_height) == img_height < total_height

\* if img_height < total_height * 0.9
Truncated(img_height, total_height) == 10 * img_height < 9 * total_height

\* get_screenshot_as_png, Image.open; a truncated snapshot goes to stitching,
\* any other is returned
SingleShot ==
    /\ cpc = "shot"
    /\ \E o \in Outcomes :
        IF o = "ok"
        THEN \E sh \in ShotHeights(win[2]) :
                /\ image' = <<win[1], sh>>
                /\ steps' = Append(steps, "capture")
                /\ IF Truncated(sh, total[2])
                   THEN /\ result' = result
                        /\ cpc' = "st_resize"
                   ELSE /\ result' = ImageResult(<<win[1], sh>>, "direct")
                        /\ cpc' = "done"
        ELSE /\ UNCHANGED <<image, result, steps>>
             /\ cpc' = HandlerPc(o)
    /\ UNCHANGED <<callFixed, sessVars, stitchVars, page, total, win, log>>

\* A plausible slip: the last except clause tearing the session down before
\* it returns the placeholder, as the clause before it does.
ReturnBlankAfterClose ==
    /\ cpc = "ex_blank"
    /\ handler' = "other"
    /\ result' = ImageResult(<<BlankWidth, BlankHeight>>, "blank")
    /\ cpc' = "done"
    /\ driver' = Dead
    /\ ResetLocals
    /\ UNCHANGED <<pureVars, cfgVars, mainVars, url, fresh, orphans, strays, page, log>>

\* except Exception: return Image.new('RGB', (1920, 1080), color='white')
ReturnBlank ==
    /\ cpc = "ex_blank"
    /\ handler' = "other"
    /\ result' = ImageResult(<<BlankWidth, BlankHeight>>, "blank")
    /\ cpc' = "done"
    /\ ResetLocals
    /\ UNCHANGED <<pureVars, cfgVars, mainVars, url, fresh, sessVars, page, log>>


(***************************************************************************)
(* WebCrawler._capture_full_screenshot_with_stitching, called from the try *)
(* body of capture_screenshot: what it raises reaches the same handlers.   *)
(***************************************************************************)
\* What window.pageYOffset can read after window.scrollTo(0, offset) on a
\* document total_height high: the offset clamped to the last viewport, the
\* offset itself or a position further down (the document grew), or the
\* position of the iteration before.
Jump == 1500

ScrollPositions ==
    {Min(offset, Max(0, total[2] - ViewportHeight)), offset, offset + Jump}
        \cup (IF last_scrolled_pos >= 0 THEN {last_scrolled_pos} ELSE {})

\* A plausible slip: the tile written where it was asked, without cutting it to
\* the canvas.
PasteUnclipped(y, tile_height, canvas_height) == <<y, y + tile_height>>

\* A plausible slip: the tile written at the top of the canvas whatever the
\* position read back.
PasteAtCanvasTop(y, tile_height, canvas_height) == <<0, Min(tile_height, canvas_height)>>

\* A plausible slip: the canvas made as wide as the window and not as the page.
NewCanvasWindowWide(w, h) == <<Min(ViewportMaxWidth, w), h>>

\* full_screenshot.paste(screenshot, (0, y)): the rows of the canvas the tile
\* is written to, <<first, one past the last>>; Image.paste cuts the tile to
\* the canvas
Paste(y, tile_height, canvas_height) ==
    <<Min(y, canvas_height), Min(y + tile_height, canvas_height)>>

\* full_screenshot = Image.new('RGB', (total_width, total_height))
NewCanvas(w, h) == <<w, h>>

\* set_window_size(viewport_width, viewport_height); Image.new; offset = 0;
\* last_scrolled_pos = -1
StitchResize ==
    /\ cpc = "st_resize"
    /\ \E o \in Outcomes :
        IF o = "ok"
        THEN /\ win' = <<Min(ViewportMaxWidth, total[1]), ViewportHeight>>
             /\ full_screenshot' = NewCanvas(total[1], total[2])
             /\ offset' = 0
             /\ last_scrolled_pos' = -1
             /\ cpc' = IF 0 < total[2] THEN "st_scroll" ELSE "st_return"
        ELSE /\ UNCHANGED <<win, full_screenshot, offset, last_scrolled_pos>>
             /\ cpc' = HandlerPc(o)
    /\ UNCHANGED <<callFixed, steps, sessVars, tiles, pasted, page, total, image, log,
                   result>>

\* What a step of the stitching loop leaves alone.
stitchFixed == <<domVars, parserVars, otherVars, cfgVars, mainVars, url, fresh, handler>>

\* A plausible slip: the loop goes on to the capture whatever position was
\* read back.
StitchScrollNoEndCheck ==
    /\ cpc = "st_scroll"
    /\ \E o \in Outcomes :
        IF o = "ok"
        THEN \E current_scroll_position \in ScrollPositions :
                /\ last_scrolled_pos' = current_scroll_position
                /\ cpc' = "st_shot"
        ELSE /\ last_scrolled_pos' = last_scrolled_pos
             /\ cpc' = HandlerPc(o)
    /\ UNCHANGED <<stitchFixed, steps, sessVars, full_screenshot, offset, tiles,
                   pasted, page, total, win, image, log, result>>

\* window.scrollTo(0, offset); current_scroll_position = window.pageYOffset;
\* if current_scroll_position == last_scrolled_pos: break
StitchScrollStep ==
    /\ cpc = "st_scroll"
    /\ \E o \in Outcomes :
        IF o = "ok"
        THEN \E current_scroll_position \in ScrollPositions :
                IF current_scroll_position = last_scrolled_pos
                THEN /\ last_scrolled_pos' = last_scrolled_pos
                     /\ cpc' = "st_return"
                ELSE /\ last_scrolled_pos' = current_scroll_position
                     /\ cpc' = "st_shot"
        ELSE /\ last_scrolled_pos' = last_scrolled_pos
             /\ cpc' = HandlerPc(o)
    /\ UNCHANGED <<stitchFixed, steps, sessVars, full_screenshot, offset, tiles,
                   pasted, page, total, win, image, log, result>>

\* The scroll of the loop, in the run of main
StitchScroll == StitchScrollStep /\ UNCHANGED coverVars

\* min(offset, max(0, total_height - viewport_height)): the position a browser
\* reaches that scrolls as far as asked and no further than the last viewport
Clamped == Min(offset, Max(0, total[2] - ViewportHeight))

\* The scroll of the loop, with the positions read back followed
StitchScrollTracked ==
    /\ StitchScrollStep
    /\ tiled' = tiled
    /\ ideal' = (/\ ideal
                 /\ cpc' = "st_return" => last_scrolled_pos = Clamped
                 /\ cpc' = "st_shot" => last_scrolled_pos' = Clamped)

\* A plausible slip: the overlap added to the step instead of taken from it.
NextOffsetPastOverlap(o) == o + (ViewportHeight + Overlap)

\* offset += viewport_height - overlap
NextOffset(o) == o + (ViewportHeight - Overlap)

\* get_screenshot_as_png, Image.open, paste at the position read back,
\* offset += viewport_height - overlap; if offset >= total_height: break
StitchShotStep ==
    /\ cpc = "st_shot"
    /\ \E o \in Outcomes :
        IF o = "ok"
        THEN \E sh \in ShotHeights(win[2]) :
                /\ image' = <<win[1], sh>>
                /\ pasted' = Paste(last_scrolled_pos, sh, full_screenshot[2])
                /\ tiles' = tiles + 1
                /\ steps' = IF steps[Len(steps)] = "capture" THEN steps
                            ELSE Append(steps, "capture")
                /\ offset' = NextOffset(offset)
                /\ cpc' = IF offset' < total[2] THEN "st_scroll" ELSE "st_return"
        ELSE /\ UNCHANGED <<image, pasted, tiles, offset, steps>>
             /\ cpc' = HandlerPc(o)
    /\ UNCHANGED <<stitchFixed, sessVars, full_screenshot, last_scrolled_pos, page,
                   total, win, log, result>>

\* The capture of a tile, in the run of main
StitchShot == StitchShotStep /\ UNCHANGED coverVars

\* The capture of a tile, with the tiles pasted followed
StitchShotTracked ==
    /\ StitchShotStep
    /\ IF tiles' = tiles + 1
       THEN /\ tiled' = Append(tiled, <<last_scrolled_pos, image'[2]>>)
            /\ ideal' = (ideal /\ image'[2] = ViewportHeight)
       ELSE UNCHANGED coverVars

\* return full_screenshot
StitchReturn ==
    /\ cpc = "st_return"
    /\ result' = ImageResult(full_screenshot, "stitched")
    /\ cpc' = "done"
    /\ UNCHANGED <<callFixed, steps, sessVars, stitchVars, page, total, win, image, log>>

(***************************************************************************)
(* The stitching on its own: capture_screenshot has measured a page and    *)
(* calls _capture_full_screenshot_with_stitching(total_width,              *)
(* total_height); the tiles pasted are followed until the call returns.    *)
(***************************************************************************)
\* The pages stitched on their own: heights around the viewport height (1080),
\* around the step of the loop (780) and its multiples, and up to four steps.
StitchedPages ==
    { <<w, h>> : w \in {1280, 2000},
                 h \in {2, 300, 779, 780, 781, 1079, 1080, 1081, 1380, 1560,
                        1561, 1860, 1861, 2340, 2341, 2500} }

StitchInit ==
    /\ page_load_timeout = DefaultPageLoadTimeout
    /\ browser_type = "chrome"
    /\ NoSuppression
    /\ NoParsing
    /\ NoCoverage
    /\ NoOther
    /\ mpc = "in_capture"
    /\ urls = << "https://ex.com/blog?f=a.png" >>
    /\ i = 1
    /\ captured = urls
    /\ individual_pdfs = <<>>
    /\ driver = _init_browser
    /\ orphans = 0
    /\ strays = 0
    /\ cpc = "st_resize"
    /\ url = urls[1]
    /\ fresh = FALSE
    /\ handler = "none"
    /\ page \in StitchedPages
    /\ total = page
    /\ win = <<total[1], Min(total[2], SingleShotMaxHeight)>>
    /\ image = <<win[1], Min(ViewportHeight, (9 * total[2] - 1) \div 10)>>
    /\ full_screenshot = NoSize
    /\ offset = 0
    /\ last_scrolled_pos = -1
    /\ tiles = 0
    /\ pasted = NoSize
    /\ log = << <<"get", FALSE>> >>
    /\ steps = <<"navigate", "wait", "probe", "suppress", "settle", "capture">>
    /\ result = NoResult

StitchNext ==
    \/ StitchResize \/ StitchScrollTracked \/ StitchShotTracked \/ StitchReturn

StitchSpec == StitchInit /\ [][StitchNext]_vars

(***************************************************************************)
(* capture_screenshot: except TimeoutException and except                  *)
(* WebDriverException.  What a handler raises leaves capture_screenshot:   *)
(* the clauses of one try do not catch each other's exceptions.            *)
(***************************************************************************)
\* A plausible slip: the handlers inside the try, so that what one raises is
\* caught again.
HandlerRaiseCaught(k) ==
    /\ result' = result
    /\ cpc' = HandlerPc(k)

HandlerRaise(k) ==
    /\ result' = Raised(k)
    /\ cpc' = "done"

\* The locals of the try body are dead in a handler: its first step clears them.
\* self.driver.set_page_load_timeout(240)
TimeoutSet ==
    /\ cpc = "to_set"
    /\ \E o \in Outcomes :
        IF o = "ok"
        THEN /\ driver' = [driver EXCEPT !.plt = RetryPageLoadTimeout]
             /\ cpc' = "to_get"
             /\ result' = result
        ELSE /\ driver' = driver
             /\ HandlerRaise(o)
    /\ handler' = "timeout"
    /\ ResetLocals
    /\ page' = NoSize
    /\ UNCHANGED <<pureVars, cfgVars, mainVars, url, fresh, orphans, strays, log>>

\* A plausible slip: close without its try, so that what quit raises leaves
\* the handler.
DriverCloseRaises ==
    /\ cpc = "de_close"
    /\ log' = Append(log, <<"quit", fresh>>)
    /\ \E o \in CloseOutcomes :
        /\ driver' = close(o)
        /\ IF o = "ok"
           THEN /\ cpc' = "de_init"
                /\ result' = result
           ELSE HandlerRaise("quit")
    /\ handler' = "driver"
    /\ ResetLocals
    /\ page' = NoSize
    /\ UNCHANGED <<pureVars, cfgVars, mainVars, url, fresh, orphans, strays>>

\* self.close()
DriverClose ==
    /\ cpc = "de_close"
    /\ log' = Append(log, <<"quit", fresh>>)
    /\ \E o \in CloseOutcomes : driver' = close(o)
    /\ cpc' = "de_init"
    /\ handler' = "driver"
    /\ ResetLocals
    /\ page' = NoSize
    /\ UNCHANGED <<pureVars, cfgVars, mainVars, url, fresh, orphans, strays, result>>

\* self.driver = self._init_browser()
DriverInit ==
    /\ cpc = "de_init"
    /\ \E o \in InitOutcomes :
        /\ orphans' = Orphaned(o, driver)
        /\ log' = IF o = "failed" THEN log ELSE Append(log, <<"create", TRUE>>)
        /\ IF o = "created"
           THEN /\ driver' = _init_browser
                /\ fresh' = TRUE
                /\ cpc' = "de_get"
                /\ result' = result
           ELSE /\ driver' = driver
                /\ fresh' = fresh
                /\ HandlerRaise("init")
    /\ UNCHANGED <<pureVars, cfgVars, mainVars, url, handler, steps, strays, stitchVars, page, total,
                   win, image>>

\* self.driver.get(url) of a handler
RetryGet(h) ==
    /\ cpc = h \o "_get"
    /\ log' = Append(log, <<"get", fresh>>)
    /\ \E o \in Outcomes :
        IF o = "ok"
        THEN /\ \E p \in Pages : page' = p
             /\ cpc' = h \o "_pause"
             /\ result' = result
        ELSE /\ page' = page
             /\ HandlerRaise(o)
    /\ UNCHANGED <<callFixed, steps, sessVars, stitchVars, total, win, image>>

\* time.sleep(self.wait_time * 2); self._pause_videos_and_animations()
RetryPause(h) ==
    /\ cpc = h \o "_pause"
    /\ \E o \in Outcomes :
        IF o \in {"ok", "js"}
        THEN /\ cpc' = h \o "_dims"
             /\ result' = result
        ELSE HandlerRaise(o)
    /\ UNCHANGED <<callFixed, steps, sessVars, stitchVars, page, total, win, image, log>>

\* total_width, total_height = self._get_page_dimensions()
RetryDimensions(h) ==
    /\ cpc = h \o "_dims"
    /\ \E o \in Outcomes :
        IF o = "ok"
        THEN /\ total' = page
             /\ cpc' = h \o "_resize"
             /\ result' = result
        ELSE /\ total' = total
             /\ HandlerRaise(o)
    /\ UNCHANGED <<callFixed, steps, sessVars, stitchVars, page, win, image, log>>

\* A plausible slip: the window of a retry capped like the window of the
\* normal flow, at 16000.
RetryResizeNormalCap(h) ==
    /\ cpc = h \o "_resize"
    /\ \E o \in Outcomes :
        IF o = "ok"
        THEN /\ win' = <<total[1], Min(total[2], SingleShotMaxHeight)>>
             /\ cpc' = h \o "_shot"
             /\ result' = result
        ELSE /\ win' = win
             /\ HandlerRaise(o)
    /\ UNCHANGED <<callFixed, steps, sessVars, stitchVars, page, total, image, log>>

\* self.driver.set_window_size(total_width, min(total_height, 15000))
RetryResize(h) ==
    /\ cpc = h \o "_resize"
    /\ \E o \in Outcomes :
        IF o = "ok"
        THEN /\ win' = <<total[1], Min(total[2], RetryMaxHeight)>>
             /\ cpc' = h \o "_shot"
             /\ result' = result
        ELSE /\ win' = win
             /\ HandlerRaise(o)
    /\ UNCHANGED <<callFixed, steps, sessVars, stitchVars, page, total, image, log>>

\* time.sleep(2); screenshot_bytes = self.driver.get_screenshot_as_png()
RetryShot(h) ==
    /\ cpc = h \o "_shot"
    /\ \E o \in Outcomes :
        IF o = "ok"
        THEN /\ \E sh \in ShotHeights(win[2]) : image' = <<win[1], sh>>
             /\ cpc' = h \o "_open"
             /\ result' = result
        ELSE /\ image' = image
             /\ HandlerRaise(o)
    /\ UNCHANGED <<callFixed, steps, sessVars, stitchVars, page, total, win, log>>

TimeoutGet == RetryGet("to")
TimeoutPause == RetryPause("to")
TimeoutDimensions == RetryDimensions("to")
TimeoutResize == RetryResize("to")
TimeoutShot == RetryShot("to")

\* self.driver.set_page_load_timeout(self.page_load_timeout);
\* image = Image.open(BytesIO(screenshot_bytes)); return image
TimeoutRestore ==
    /\ cpc = "to_open"
    /\ \E o \in Outcomes :
        IF o = "ok"
        THEN /\ driver' = [driver EXCEPT !.plt = page_load_timeout]
             /\ \/ result' = ImageResult(image, "timeout_retry")
                \/ result' = Raised("other")
             /\ cpc' = "done"
        ELSE /\ driver' = driver
             /\ HandlerRaise(o)
    /\ UNCHANGED <<callFixed, steps, orphans, strays, stitchVars, page, total, win, image,
                   log>>

DriverGet == RetryGet("de")
DriverPause == RetryPause("de")
DriverDimensions == RetryDimensions("de")
DriverResize == RetryResize("de")
DriverShot == RetryShot("de")

\* image = Image.open(BytesIO(screenshot_bytes)); return image
DriverReturn ==
    /\ cpc = "de_open"
    /\ \/ result' = ImageResult(image, "driver_retry")
       \/ result' = Raised("other")
    /\ cpc' = "done"
    /\ UNCHANGED <<callFixed, steps, sessVars, stitchVars, page, total, win, image, log>>

(***************************************************************************)
(* The script of WebCrawler._pause_videos_and_animations, as a function of *)
(* the document it runs on.  A document is a video, an iframe (its src),   *)
(* a carousel (its animation-play-state), the style elements the script    *)
(* has appended to head, a popup (its display) and a header (its computed  *)
(* position); "none" and "" stand for an element the page does not have.   *)
(***************************************************************************)
\* The runs of the script on one document.
MaxRuns == 2

IframeSrcs ==
    { "", "https://ex.com/map", "https://www.youtube.com/embed/x",
      "https://www.youtube.com/embed/x?rel=0", "https://player.vimeo.com/video/1" }

Doms ==
    [ video : {"none", "playing", "paused"},
      iframe : IframeSrcs,
      carousel : {"none", "running"},
      sheets : {0},
      popup : {"none", "block"},
      header : {"none", "static", "fixed", "sticky"} ]

\* iframe[src*="youtube"], iframe[src*="vimeo"]: the parameters are appended
\* to the src, after "&" when it has a "?" and after "?" when it has none
PauseIframe(src) ==
    IF Contains(src, "youtube")
    THEN src \o (IF Contains(src, "?") THEN "&" ELSE "?") \o "autoplay=0&controls=0"
    ELSE IF Contains(src, "vimeo")
    THEN src \o (IF Contains(src, "?") THEN "&" ELSE "?") \o "autoplay=0"
    ELSE src

\* videos[i].pause(); carousels[i].style.animationPlayState = 'paused';
\* document.head.appendChild(styleSheet); elementsToRemove[i].style.display =
\* 'none'; position fixed or sticky becomes absolute
_pause_videos_and_animations(d) ==
    [ video |-> IF d.video = "none" THEN "none" ELSE "paused",
      iframe |-> PauseIframe(d.iframe),
      carousel |-> IF d.carousel = "none" THEN "none" ELSE "paused",
      sheets |-> d.sheets + 1,
      popup |-> IF d.popup = "none" THEN "none" ELSE "hidden",
      header |-> IF d.header \in {"fixed", "sticky"} THEN "absolute" ELSE d.header ]

\* The style rules in force: a rule appended twice is the same rule.
StyleRules(d) == IF d.sheets > 0 THEN {"* { animation-play-state: paused }"} ELSE {}

SuppressInit ==
    /\ page_load_timeout = DefaultPageLoadTimeout
    /\ browser_type = "chrome"
    /\ NotStarted
    /\ dom \in Doms
    /\ runs = 0
    /\ NoParsing
    /\ NoCoverage
    /\ NoOther

\* self.driver.execute_script(...) on the document as the run before left it
PauseScript ==
    /\ runs < MaxRuns
    /\ dom' = _pause_videos_and_animations(dom)
    /\ runs' = runs + 1
    /\ UNCHANGED <<cfgVars, mainVars, sessVars, stitchVars, callVars, parserVars,
                   coverVars, otherVars>>

SuppressNext == PauseScript

SuppressSpec == SuppressInit /\ [][SuppressNext]_vars

(***************************************************************************)
(* SitemapParser.process_urls_file: the lines of the urls file are taken   *)
(* in order; a line that is a sitemap URL is fetched and the URLs it lists *)
(* are filed under the domain of the sitemap URL.                          *)
(***************************************************************************)
\* The lines of a urls file.
MaxSitemaps == 2

\* The lines a urls file can hold: two sitemaps of one domain, the sitemap of
\* another, a sitemap that lists nothing, and a URL that is not a sitemap.
SitemapUrls ==
    { "https://a.com/sitemap.xml", "https://a.com/Sitemap2.XML",
      "https://b.com/sitemap", "https://c.com/sitemap.xml", "https://b.com/feed.xml" }

\* The <loc> texts of the document a sitemap URL serves, in document order.
Locs(sitemap_url) ==
    CASE sitemap_url = "https://a.com/sitemap.xml" ->
            << "https://a.com/", "https://a.com/x", "https://a.com/" >>
      [] sitemap_url = "https://a.com/Sitemap2.XML" ->
            << "https://a.com/x", "https://a.com/y" >>
      [] sitemap_url = "https://b.com/sitemap" -> << "https://b.com/" >>
      [] OTHER -> <<>>

\* lower_url = url.lower(); "sitemap" in lower_url and (".xml" in lower_url or
\* lower_url.endswith("/sitemap"))
is_sitemap_url(u) ==
    LET lower_url == Lower(u)
    IN  /\ Contains(lower_url, "sitemap")
        /\ (Contains(lower_url, ".xml") \/ EndsWith(lower_url, "/sitemap"))

\* urlparse(url).netloc for a URL scheme://netloc/path?query#fragment
extract_domain_from_url(u) ==
    LET schemeEnd == CHOOSE n \in 1..Len(u) : SubSeq(u, n, n + 2) = "://"
        netlocStart == schemeEnd + 3
        pathStart == FirstOf(u, netlocStart, {"/", "?", "#"})
    IN  SubSeq(u, netlocStart, pathStart - 1)

\* extract_urls_from_sitemap(sitemap_url): every <loc> of the document,
\* appended as it comes; [] when the request or the parsing fails
extract_urls_from_sitemap(sitemap_url) == {Locs(sitemap_url), <<>>}

Range(q) == {q[n] : n \in DOMAIN q}

\* list(set(l)): the elements of l, each once, in an order Python chooses
ListOfSet(l) ==
    {q \in [1..Cardinality(Range(l)) -> Range(l)] : Range(q) = Range(l)}

ParseInit ==
    /\ page_load_timeout = DefaultPageLoadTimeout
    /\ browser_type = "chrome"
    /\ NotStarted
    /\ NoSuppression
    /\ NoCoverage
    /\ NoOther
    /\ ppc = "open"
    /\ \E n \in 1..MaxSitemaps : sitemap_urls \in [1..n -> SitemapUrls]
    /\ taken = 0
    /\ results = NoResults

parseFixed ==
    <<cfgVars, mainVars, sessVars, stitchVars, callVars, domVars, coverVars, otherVars>>

\* with open(file_path) as f: sitemap_urls = [...]; results = {}; an exception
\* is caught at the end of the function, which returns {}
ReadUrlsFile ==
    /\ ppc = "open"
    /\ ppc' \in {"loop", "returned"}
    /\ UNCHANGED <<parseFixed, sitemap_urls, taken, results>>

\* for sitemap_url in sitemap_urls: one turn of the loop
ProcessSitemap ==
    /\ ppc = "loop"
    /\ taken < Len(sitemap_urls)
    /\ taken' = taken + 1
    /\ LET sitemap_url == sitemap_urls[taken + 1]
           domain == extract_domain_from_url(sitemap_url)
       IN  IF ~is_sitemap_url(sitemap_url)
           THEN results' = results
           ELSE \E page_urls \in extract_urls_from_sitemap(sitemap_url) :
                    IF page_urls = <<>>
                    THEN results' = results
                    ELSE IF domain \in DOMAIN results
                    THEN \E merged \in ListOfSet(results[domain] \o page_urls) :
                            results' = [results EXCEPT ![domain] = merged]
                    ELSE results' =
                            [d \in DOMAIN results \cup {domain} |->
                                IF d = domain THEN page_urls ELSE results[d]]
    /\ UNCHANGED <<parseFixed, ppc, sitemap_urls>>

\* return results
ReturnResults ==
    /\ ppc = "loop"
    /\ taken = Len(sitemap_urls)
    /\ ppc' = "returned"
    /\ UNCHANGED <<parseFixed, sitemap_urls, taken, results>>

ParseNext == ReadUrlsFile \/ ProcessSitemap \/ ReturnResults

ParseSpec == ParseInit /\ [][ParseNext]_vars

(***************************************************************************)
(* WebCrawler._wait_for_page_load_completion, the height-stability stage   *)
(* on its own: document.body.scrollHeight sampled until two samples in a   *)
(* row agree or ten seconds have passed.                                   *)
(***************************************************************************)
\* What document.body.scrollHeight can return: a page may grow, shrink or
\* alternate for as long as it is sampled.
SampledHeights == {600, 900, 1200}

\* One turn of the loop takes the second it sleeps and up to MaxDelay - 1
\* more for the script.
MaxDelay == 2

\* while ... and time.time() - start_time < 10: the seconds the loop may take
StabilityBudget == 10

\* A plausible slip: the loop tests the heights only.
PollingNoBudget == previous_height # current_height

\* while previous_height != current_height and time.time() - start_time < 10
Polling == previous_height # current_height /\ elapsed < StabilityBudget

HeightInit ==
    /\ page_load_timeout = DefaultPageLoadTimeout
    /\ browser_type = "chrome"
    /\ NotStarted
    /\ NoSuppression
    /\ NoParsing
    /\ NoCoverage
    /\ NoBatch
    /\ hpc = "first"
    /\ previous_height = -1
    /\ current_height = -1
    /\ elapsed = 0
    /\ samples = 0

heightFixed ==
    <<cfgVars, mainVars, sessVars, stitchVars, callVars, domVars, parserVars, coverVars,
      batchVars>>

\* previous_height = -1; current_height = execute_script(...); start_time =
\* time.time().  What execute_script raises ends the stage in its except clause.
HeightFirstSample ==
    /\ hpc = "first"
    /\ \/ /\ current_height' \in SampledHeights
          /\ hpc' = "test"
       \/ /\ current_height' = current_height
          /\ hpc' = "failed"
    /\ UNCHANGED <<previous_height, elapsed, samples, heightFixed>>

\* The body of the loop: previous_height = current_height; time.sleep(1);
\* current_height = execute_script(...)
HeightSample ==
    /\ hpc = "test"
    /\ Polling
    /\ previous_height' = current_height
    /\ \E d \in 1..MaxDelay : elapsed' = elapsed + d
    /\ \/ /\ current_height' \in SampledHeights
          /\ samples' = samples + 1
          /\ hpc' = "test"
       \/ /\ current_height' = current_height
          /\ samples' = samples
          /\ hpc' = "failed"
    /\ UNCHANGED heightFixed

\* The loop condition is false: logger.debug("Altura da pagina estabilizada")
HeightDone ==
    /\ hpc = "test"
    /\ ~Polling
    /\ hpc' = "done"
    /\ UNCHANGED <<previous_height, current_height, elapsed, samples, heightFixed>>

HeightNext == HeightFirstSample \/ HeightSample \/ HeightDone

\* The interpreter runs the next statement: a stage that can take a step takes it.
HeightSpec == HeightInit /\ [][HeightNext]_vars /\ WF_vars(HeightNext)

(***************************************************************************)
(* main with its files: the domain loop, the page loop with the names of   *)
(* the page PDFs, the per-domain merge and the final merge.  A call of     *)
(* capture_screenshot and of image_to_pdf is one step here: the page's PDF *)
(* is written, is left empty, or is not there.                             *)
(***************************************************************************)
Digits == "0123456789"

HasChar(chars, c) == \E n \in 1..Len(chars) : CharAt(chars, n) = c

StartsWith(s, prefix) ==
    /\ Len(s) >= Len(prefix)
    /\ SubSeq(s, 1, Len(prefix)) = prefix

\* re.sub(r'[^...]', '_', s) for the character class keep
RECURSIVE SubOthers(_, _)
SubOthers(s, keep) ==
    IF Len(s) = 0 THEN ""
    ELSE (IF HasChar(keep, CharAt(s, 1)) THEN CharAt(s, 1) ELSE "_")
            \o SubOthers(SubSeq(s, 2, Len(s)), keep)

\* s.rstrip('/')
RECURSIVE RStripSlash(_)
RStripSlash(s) ==
    IF Len(s) > 0 /\ CharAt(s, Len(s)) = "/"
    THEN RStripSlash(SubSeq(s, 1, Len(s) - 1))
    ELSE s

\* s.split('/')[-1]
LastPart(s) ==
    LET slashes == {n \in 1..Len(s) : CharAt(s, n) = "/"}
    IN  IF slashes = {} THEN s
        ELSE SubSeq(s, (CHOOSE n \in slashes : \A m \in slashes : m <= n) + 1, Len(s))

\* utils.clean_domain_name
clean_domain_name(dm) ==
    LET lowered == Lower(dm)
        bare == IF StartsWith(lowered, "www.") THEN SubSeq(lowered, 5, Len(lowered))
                ELSE lowered
    IN  SubOthers(bare, LowerChars \o Digits \o ".-")

\* page_name of the n-th URL of a domain: the last part of the URL, or
\* page_<n>, with what is not a letter or a digit replaced by "_"
page_name(page_url, n, dm) ==
    LET last == LastPart(RStripSlash(page_url))
        named == IF last # "" /\ last # dm THEN last ELSE "page_" \o ToString(n)
        safe == SubOthers(named, LowerChars \o UpperChars \o Digits)
    IN  IF safe = "" \/ safe = "_" THEN "page_" \o ToString(n) ELSE safe

\* domain_dir, pages_dir / pdf_filename, merged_pdf_path and final_pdf_path,
\* below the output directory
domain_dir(dm) == clean_domain_name(dm)
PagePath(dm, filename) == domain_dir(dm) \o "/pages/" \o filename
merged_pdf_path(dm) == domain_dir(dm) \o "/" \o clean_domain_name(dm) \o "_completo.pdf"
final_pdf_path == "todos_os_sites.pdf"

\* os.path.exists(p) and os.path.getsize(p) > 0
NonEmptyFile(p) == p \in DOMAIN files /\ files[p] # ""

\* A plausible slip: the name of the page taken as it is.
FirstPdfPath(dm, name) == PagePath(dm, name \o ".pdf")

\* pdf_path = pages_dir / f"{page_name}.pdf"; counter = 1; while
\* pdf_path.exists(): pdf_path = pages_dir / f"{page_name}_{counter}.pdf"
UniquePdfPath(dm, name) ==
    LET numbered(c) == PagePath(dm, name \o "_" \o ToString(c) \o ".pdf")
        free == {c \in 1..(Cardinality(DOMAIN files) + 1) : numbered(c) \notin DOMAIN files}
    IN  IF PagePath(dm, name \o ".pdf") \notin DOMAIN files
        THEN PagePath(dm, name \o ".pdf")
        ELSE numbered(CHOOSE c \in free : \A e \in free : c <= e)

\* The files after p is written with content c.
WriteFile(p, c) ==
    [q \in DOMAIN files \cup {p} |-> IF q = p THEN c ELSE files[q]]

\* shutil.rmtree(domain_dir): the files left
rmtree(dm) ==
    [q \in {x \in DOMAIN files : ~StartsWith(x, domain_dir(dm) \o "/")} |-> files[q]]

\* The dictionaries process_urls_file can return: two keys that
\* clean_domain_name maps to one directory, with page URLs whose last parts
\* give one name; and two keys with directories of their own.
DomainDicts ==
    { << <<"www.ex.com", << "https://www.ex.com/", "https://www.ex.com/a/te-am" >> >>,
         <<"ex.com", << "https://ex.com/b/te.am", "https://ex.com/te_am/" >> >> >>,
      << <<"ex.com", << "https://ex.com/a/te-am", "https://ex.com/b/te.am",
                        "https://ex.com/te_am_1" >> >>,
         <<"ab.org", << "https://ab.org" >> >> >> }

\* The files a run before has left, when there was one.
InitialFiles ==
    { NoFiles,
      [q \in {"ex.com/pages/te_am.pdf", "ex.com/ex.com_completo.pdf"} |-> "stale"] }

BatchInit ==
    /\ page_load_timeout = DefaultPageLoadTimeout
    /\ browser_type = "chrome"
    /\ NotStarted
    /\ NoSuppression
    /\ NoParsing
    /\ NoCoverage
    /\ NoHeightPoll
    /\ bpc = "domain_loop"
    /\ clean \in BOOLEAN
    /\ skip_final_merge \in BOOLEAN
    /\ domain_urls \in DomainDicts
    /\ taken_domains = 0
    /\ domain_key = ""
    /\ pdf_path = ""
    /\ all_merged_pdfs = <<>>
    /\ valid_merged_pdfs = <<>>
    /\ files \in InitialFiles
    /\ merged_ok = <<>>

batchFixed ==
    <<cfgVars, mpc, captured, sessVars, stitchVars, callVars, domVars, parserVars,
      coverVars, heightVars, clean, skip_final_merge, domain_urls>>

\* for domain, urls in domain_urls.items(): the next item
BatchDomainStart ==
    /\ bpc = "domain_loop"
    /\ taken_domains < Len(domain_urls)
    /\ taken_domains' = taken_domains + 1
    /\ domain_key' = domain_urls[taken_domains'][1]
    /\ urls' = domain_urls[taken_domains'][2]
    /\ bpc' = "domain_setup"
    /\ UNCHANGED <<batchFixed, i, individual_pdfs, pdf_path, all_merged_pdfs,
                   valid_merged_pdfs, files, merged_ok>>

\* if clean and domain_dir.exists(): shutil.rmtree(domain_dir); mkdir.  An
\* rmtree that raises has removed the files or has not.
BatchClean ==
    /\ bpc = "domain_setup"
    /\ \/ /\ files' = IF clean THEN rmtree(domain_key) ELSE files
          /\ bpc' \in {"crawler", "domain_except"}
       \/ /\ clean
          /\ files' = files
          /\ bpc' = "domain_except"
    /\ UNCHANGED <<batchFixed, urls, i, individual_pdfs, taken_domains, domain_key,
                   pdf_path, all_merged_pdfs, valid_merged_pdfs, merged_ok>>

\* crawler = WebCrawler(...), which creates the session or raises;
\* individual_pdfs = []
BatchCrawler ==
    /\ bpc = "crawler"
    /\ \/ /\ bpc' = "page_loop"
          /\ i' = 0
          /\ individual_pdfs' = <<>>
       \/ /\ bpc' = "domain_except"
          /\ UNCHANGED <<i, individual_pdfs>>
    /\ UNCHANGED <<batchFixed, urls, taken_domains, domain_key, pdf_path,
                   all_merged_pdfs, valid_merged_pdfs, files, merged_ok>>

\* for i, page_url in enumerate(urls): page_name and pdf_path
BatchPagePath ==
    /\ bpc = "page_loop"
    /\ i < Len(urls)
    /\ i' = i + 1
    /\ pdf_path' = UniquePdfPath(domain_key, page_name(urls[i'], i', domain_key))
    /\ bpc' = "page_pdf"
    /\ UNCHANGED <<batchFixed, urls, individual_pdfs, taken_domains, domain_key,
                   all_merged_pdfs, valid_merged_pdfs, files, merged_ok>>

\* capture_screenshot, image_to_pdf(screenshot, str(pdf_path)) and the test
\* of the file: the PDF is written and collected; or it is left empty; or
\* the capture or the conversion raised before any file was made
BatchPagePdf ==
    /\ bpc = "page_pdf"
    /\ \/ /\ files' = WriteFile(pdf_path, urls[i])
          /\ individual_pdfs' = Append(individual_pdfs, pdf_path)
       \/ /\ files' = WriteFile(pdf_path, "")
          /\ individual_pdfs' = individual_pdfs
       \/ UNCHANGED <<files, individual_pdfs>>
    /\ bpc' = "page_loop"
    /\ UNCHANGED <<batchFixed, urls, i, taken_domains, domain_key, pdf_path,
                   all_merged_pdfs, valid_merged_pdfs, merged_ok>>

\* if individual_pdfs: filter_valid_pdfs, merge_pdfs(valid_pdfs,
\* merged_pdf_path), and all_merged_pdfs.append when the file is there
BatchMerge ==
    /\ bpc = "page_loop"
    /\ i = Len(urls)
    /\ IF individual_pdfs = <<>>
       THEN /\ bpc' = "close"
            /\ UNCHANGED <<files, all_merged_pdfs, merged_ok>>
       ELSE \/ /\ files' = WriteFile(merged_pdf_path(domain_key), domain_key)
               /\ all_merged_pdfs' = Append(all_merged_pdfs, merged_pdf_path(domain_key))
               /\ merged_ok' = Append(merged_ok, domain_key)
               /\ bpc' = "close"
            \/ /\ files' \in {files, WriteFile(merged_pdf_path(domain_key), "")}
               /\ bpc' \in {"close", "domain_except"}
               /\ UNCHANGED <<all_merged_pdfs, merged_ok>>
    /\ UNCHANGED <<batchFixed, urls, i, individual_pdfs, taken_domains, domain_key,
                   pdf_path, valid_merged_pdfs>>

\* crawler.close()
BatchClose ==
    /\ bpc = "close"
    /\ bpc' = "domain_loop"
    /\ UNCHANGED <<batchFixed, urls, i, individual_pdfs, taken_domains, domain_key,
                   pdf_path, all_merged_pdfs, valid_merged_pdfs, files, merged_ok>>

\* except Exception as e: logger.error("Erro ao processar dominio ...")
BatchDomainExcept ==
    /\ bpc = "domain_except"
    /\ bpc' = "domain_loop"
    /\ UNCHANGED <<batchFixed, urls, i, individual_pdfs, taken_domains, domain_key,
                   pdf_path, all_merged_pdfs, valid_merged_pdfs, files, merged_ok>>

\* if all_merged_pdfs and not skip_final_merge: the paths that exist and are
\* not empty are merged into final_pdf_path, or the merge fails
BatchFinalMerge ==
    /\ bpc = "domain_loop"
    /\ taken_domains = Len(domain_urls)
    /\ IF all_merged_pdfs # <<>> /\ ~skip_final_merge
       THEN /\ valid_merged_pdfs' = SelectSeq(all_merged_pdfs, NonEmptyFile)
            /\ \/ /\ valid_merged_pdfs' # <<>>
                  /\ files' = WriteFile(final_pdf_path, "all")
               \/ files' = files
       ELSE UNCHANGED <<valid_merged_pdfs, files>>
    /\ bpc' = "finished"
    /\ UNCHANGED <<batchFixed, urls, i, individual_pdfs, taken_domains, domain_key,
                   pdf_path, all_merged_pdfs, merged_ok>>

BatchNext ==
    \/ BatchDomainStart \/ BatchClean \/ BatchCrawler \/ BatchPagePath
    \/ BatchPagePdf \/ BatchMerge \/ BatchClose \/ BatchDomainExcept
    \/ BatchFinalMerge

BatchSpec == BatchInit /\ [][BatchNext]_vars

(***************************************************************************)
(* The program.                                                            *)
(***************************************************************************)
Next ==
    \/ DomainStart \/ DomainSetup \/ CrawlerInit \/ PageStart \/ PagePdf
    \/ PageExcept \/ DomainMerge \/ DomainClose \/ DomainExcept \/ DomainEnd
    \/ FinalMerge
    \/ CaptureEntry \/ Navigate \/ HasMedia \/ ProbeReady \/ ProbeImages
    \/ ProbeLoading \/ ProbeHeight \/ ProbeAjax \/ PauseMedia \/ NativeCapture
    \/ GetDimensions \/ ResizeWindow \/ ScrollTop \/ SingleShot \/ ReturnBlank
    \/ StitchResize \/ StitchScroll \/ StitchShot \/ StitchReturn
    \/ TimeoutSet \/ TimeoutGet \/ TimeoutPause \/ TimeoutDimensions
    \/ TimeoutResize \/ TimeoutShot \/ TimeoutRestore
    \/ DriverClose \/ DriverInit \/ DriverGet \/ DriverPause \/ DriverDimensions
    \/ DriverResize \/ DriverShot \/ DriverReturn

Spec == Init /\ [][Next]_vars


(***************************************************************************)
(* Properties.                                                             *)
(***************************************************************************)
StitchPcs == {"st_resize", "st_scroll", "st_shot", "st_return"}

\* C1: whatever the browser's commands end with, in the try body and in the
\* handlers, capture_screenshot ends by returning an image and raises nothing.
C1_CaptureAlwaysReturnsImage ==
    cpc = "done" => result.kind = "image"

\* C2: for a URL that _is_resource_url classifies as a static resource,
\* capture_screenshot returns a 1x1 image at once, without a navigation or any
\* other command to the browser: the sessions, the loaded document, the window
\* and the call's record of navigations are as before.
C2_StaticUrlNeverNavigates ==
    [][(cpc = "entry" /\ _is_resource_url(url)) =>
            /\ cpc' = "done"
            /\ result'.kind = "image" /\ result'.w = 1 /\ result'.h = 1
            /\ UNCHANGED <<driver, orphans, strays, page, win, log>>]_vars

C2_Witness ==
    /\ cpc = "done"
    /\ url = "https://ex.com/img/team"
    /\ result = ImageResult(<<1, 1>>, "static")
    /\ log = <<>>

\* C3, as claimed: a capture of a page higher than 15000 always ends with the
\* stitched composite, of the page's size <<W, H>>, for either engine and
\* whatever the navigation ended with.
C3_TallPageAlwaysStitched ==
    (cpc = "done" /\ page[2] > StitchHeight) =>
        /\ result.via = "stitched"
        /\ <<result.w, result.h>> = page

\* C3, amended: in the normal flow, once the page has been measured with
\* H > 15000 (the native capture is absent or has failed), the single snapshot
\* is never taken: the call goes on to the stitching, and a composite it
\* returns has size exactly <<W, H>>.
C3_TallPageStitchedInDimensionCapture ==
    /\ cpc = "shot" => total[2] <= StitchHeight
    /\ (cpc = "done" /\ result.via = "direct") => total[2] <= StitchHeight
    /\ (cpc = "done" /\ result.via = "stitched") =>
            <<result.w, result.h>> = total

C3_Witness ==
    /\ cpc = "done"
    /\ browser_type = "chrome"
    /\ total[2] > StitchHeight
    /\ result = ImageResult(total, "stitched")

TileBudget(h) == (h + (ViewportHeight - Overlap) - 1) \div (ViewportHeight - Overlap)

\* How far the stitching loop has come: it grows with every step of the loop.
StitchProgress(pc, n) == 2 * n + (IF pc = "st_shot" THEN 1 ELSE 0)

\* C5: the stitching loop ends for every sequence of positions read back: a
\* tile is captured only at a position that differs from the one read before
\* (the loop is left when the two are equal), the stitching can always take
\* its next step and every step of the loop brings it forward, at most
\* ceil(H / 780) tiles are captured, and a paste writes rows of [0, H) only.
C5_StitchLoopTerminates ==
    /\ [](/\ tiles <= TileBudget(total[2])
          /\ cpc \in {"st_scroll", "st_shot"} =>
                (offset = tiles * (ViewportHeight - Overlap) /\ offset < total[2])
          /\ 0 <= pasted[1] /\ pasted[1] <= pasted[2]
          /\ pasted[2] <= full_screenshot[2]
          /\ cpc \in StitchPcs =>
                ENABLED (StitchResize \/ StitchScroll \/ StitchShot \/ StitchReturn))
    /\ [][/\ (cpc = "st_scroll" /\ last_scrolled_pos' = last_scrolled_pos) =>
                cpc' \notin {"st_scroll", "st_shot"}
          /\ (cpc \in {"st_scroll", "st_shot"} /\ cpc' \in {"st_scroll", "st_shot"}) =>
                StitchProgress(cpc', tiles') > StitchProgress(cpc, tiles)]_vars

\* A page lower than the viewport is stitched after a truncated snapshot: its
\* one tile is cut to the composite; and a loop is left because the position
\* read back is the one read before.
C5_Witness ==
    /\ cpc = "st_return"
    /\ total[2] < ViewportHeight
    /\ tiles = 1
    /\ image[2] = ViewportHeight
    /\ pasted = <<0, total[2]>>

\* C6: when the timeout handler has started its retry, the session's page-load
\* timeout is the configured one again when capture_screenshot ends, whether
\* the retry succeeded or failed; so every capture starts with the configured
\* page-load timeout.
C6_TimeoutRestoredAfterRetry ==
    /\ (cpc = "done" /\ handler = "timeout" /\ Len(log) = 2 /\ driver.st = "live") =>
            driver.plt = page_load_timeout
    /\ (cpc = "entry" /\ driver.st = "live") => driver.plt = page_load_timeout

\* C7: the retry navigation of the timeout handler runs with a page-load
\* timeout longer than the configured one, for every configured value.
C7_RetryTimeoutLonger ==
    cpc = "to_get" => driver.plt > page_load_timeout

\* C8: when the driver-error handler has run, the call's events are, in this
\* order: the navigation that failed, the end of the session, the creation of
\* a fresh one, one navigation on the fresh session; and an image is returned.
C8_DriverErrorRecovers ==
    (cpc = "done" /\ handler = "driver") =>
        /\ log = << <<"get", FALSE>>, <<"quit", FALSE>>, <<"create", TRUE>>,
                    <<"get", TRUE>> >>
        /\ result.kind = "image"

\* C9: at every point of a run at most one browser session is live.
C9_AtMostOneLiveSession ==
    LiveCount <= 1

\* C10: when the per-domain block ends, on whatever path, every session created
\* for the domain has been terminated.
C10_SessionsEndWithDomain ==
    mpc = "domain_end" => (orphans = 0 /\ driver.st # "live")

\* C11: within a domain a failure on one page (capture_screenshot or
\* image_to_pdf raising) never aborts the batch: the URLs passed to
\* capture_screenshot are at every moment the first i URLs of the domain's
\* list, in list order and each position once; a page that ended, with an
\* image or with an exception, leads back to the loop; and the loop is left
\* only when every URL of the list has been passed.
C11_PageFailureNeverAbortsBatch ==
    /\ [](/\ captured = SubSeq(urls, 1, i)
          /\ mpc = "close" => captured = urls)
    /\ [][/\ (mpc = "in_capture" /\ mpc' # "in_capture") => mpc' = "page_loop"
          /\ (mpc = "page_loop" /\ mpc' # "page_loop") =>
                (mpc' = "in_capture" \/ captured = urls)]_vars

\* The first page of a list ended with an exception, no PDF was written for
\* it, and the second URL is in capture_screenshot.
C11_Witness ==
    /\ mpc = "in_capture"
    /\ i = 2
    /\ captured = urls
    /\ individual_pdfs = <<>>
    /\ urls[1] = "https://ex.com/blog?f=a.png"
    /\ cpc = "get"

\* The stages of _wait_for_page_load_completion.
ProbePcs ==
    {"probe_ready", "probe_images", "probe_loading", "probe_height", "probe_ajax"}

\* C12: the readiness probe never fails: whatever a stage's command raises, the
\* stage swallows it and the call goes on to the next stage or, after the
\* last one, to the media suppression; no stage leads to an except clause of
\* capture_screenshot.
C12_ProbeNeverFails ==
    [][(cpc \in ProbePcs) => (cpc' \in ProbePcs \cup {"pause"})]_vars

\* C13: the media suppression never fails its caller: whatever the script's
\* execution raises, in the normal flow the call goes on to the capture, and
\* in a handler to the measuring of the page.
C13_PauseNeverFailsCaller ==
    [][/\ cpc = "pause" => cpc' \in {"pause", "native"}
       /\ cpc = "to_pause" => cpc' \in {"to_pause", "to_dims"}
       /\ cpc = "de_pause" => cpc' \in {"de_pause", "de_dims"}]_vars

\* C14: the media suppression is idempotent: a second run on the document the
\* first run left changes nothing of the positioning, the hidden elements,
\* the iframe URLs or the style rules in force.
C14_SuppressionIdempotent ==
    [][(runs >= 1 /\ runs' = runs + 1) =>
            /\ dom'.header = dom.header
            /\ dom'.popup = dom.popup
            /\ dom'.iframe = dom.iframe
            /\ StyleRules(dom') = StyleRules(dom)]_vars

\* C15: no URL list that process_urls_file returns for a domain holds a URL
\* more than once, whatever the sitemaps list and however many sitemaps cover
\* the domain.
C15_NoDuplicateUrls ==
    ppc = "returned" =>
        \A d \in DOMAIN results :
            \A m, n \in 1..Len(results[d]) :
                results[d][m] = results[d][n] => m = n

\* C16: an exception of the normal flow that is neither a TimeoutException nor
\* a WebDriverException ends the call with the blank 1920x1080 placeholder:
\* the last except clause returns it in one step that sends the browser
\* nothing, so the call has navigated once, on the session it started with,
\* and no session was ended or created.
C16_OtherErrorReturnsBlank ==
    /\ [](( cpc = "done" /\ handler = "other") =>
            /\ result.kind = "image" /\ result.w = 1920 /\ result.h = 1080
            /\ log = << <<"get", FALSE>> >>
            /\ ~fresh)
    /\ [][(cpc = "ex_blank") =>
            /\ cpc' = "done"
            /\ handler' = "other"
            /\ UNCHANGED <<driver, orphans, strays, log, fresh>>]_vars

\* The page was loaded, a later step of the normal flow raised, and the
\* placeholder came back with the session still live.
C16_Witness ==
    /\ cpc = "done"
    /\ handler = "other"
    /\ result.via = "blank"
    /\ page # NoSize
    /\ driver.st = "live"

\* C17: with Firefox a native capture that succeeds is returned as it is,
\* with no measuring of the page, no resizing of the window and no tile; a
\* native capture that fails, with whatever error, leads to the measuring of
\* the page on the same session, not to an except clause; and no other
\* engine returns a native capture.
C17_NativeCaptureFirst ==
    /\ []((cpc = "done" /\ result.via = "native") =>
            /\ browser_type = "firefox"
            /\ handler = "none" /\ ~fresh
            /\ <<result.w, result.h>> = page
            /\ total = NoSize /\ win = NoSize /\ tiles = 0)
    /\ [][(cpc = "native") =>
            /\ cpc' \in {"native", "done", "dims"}
            /\ (cpc' = "done" => result'.via = "native")
            /\ (browser_type # "firefox" => cpc' # "done")
            /\ UNCHANGED <<driver, orphans, strays, log, fresh, handler>>]_vars

\* Firefox: the native capture failed and the dimension-based capture of the
\* same session returned the image.
C17_Witness ==
    /\ cpc = "done"
    /\ browser_type = "firefox"
    /\ handler = "none" /\ ~fresh
    /\ result.via \in {"direct", "stitched"}
    /\ driver.st = "live"

\* The page as measured is one the claim sends to the stitching for its size.
MeasuredTall == total[2] > 15000 \/ (total[1] > 1920 /\ total[2] > 10000)

\* C18: in the dimension-based capture of the normal flow the stitching is
\* entered exactly when H > 15000, or W > 1920 and H > 10000, or the one
\* snapshot is lower than 0.9*H; otherwise the one snapshot taken is what
\* the call returns.
C18_StitchingDecision ==
    /\ []((cpc = "shot") => ~MeasuredTall)
    /\ []((cpc = "st_resize") =>
            (MeasuredTall \/ (image # NoSize /\ 10 * image[2] < 9 * total[2])))
    /\ []((cpc = "done" /\ result.via = "direct") =>
            /\ ~MeasuredTall
            /\ 10 * image[2] >= 9 * total[2]
            /\ <<result.w, result.h>> = image
            /\ tiles = 0)
    /\ [][/\ (cpc = "scroll_top" /\ cpc' \in {"shot", "st_resize"}) =>
                (cpc' = "st_resize" <=> MeasuredTall)
          /\ (cpc = "shot" /\ cpc' \in {"done", "st_resize"}) =>
                (cpc' = "st_resize" <=> 10 * image'[2] < 9 * total[2])]_vars

\* A wide page between 10000 and 15000 rows goes to the stitching without a
\* snapshot before.
C18_Witness ==
    /\ cpc = "st_resize"
    /\ total = <<2000, 12000>>
    /\ image = NoSize

\* The steps of the normal flow, in the order the claim gives them.
NormalFlow == <<"navigate", "wait", "probe", "suppress", "settle", "capture">>

\* C19: in the normal flow the steps are completed in the order navigate,
\* base wait, readiness probe, media suppression, settle pause, capture, and
\* none is skipped: what a call has completed is always a prefix of that
\* order; a capture that the normal flow returns has completed all six; the
\* suppression starts with the probe just finished, and no snapshot exists
\* before the suppression and the settle pause are done.
C19_NormalFlowOrder ==
    /\ handler = "none" => steps = SubSeq(NormalFlow, 1, Len(steps))
    /\ (cpc = "done" /\ result.via \in {"native", "direct", "stitched"}) =>
            steps = NormalFlow
    /\ cpc = "pause" => steps = <<"navigate", "wait", "probe">>
    /\ (handler = "none" /\ cpc \in {"shot", "st_shot"}) => Len(steps) >= 5
    /\ (handler = "none" /\ image # NoSize) => Len(steps) = 6

\* A stitched capture of the normal flow, all six steps done.
C19_Witness ==
    /\ cpc = "done"
    /\ handler = "none"
    /\ result.via = "stitched"
    /\ steps = NormalFlow

\* The events of one kind in the call's record.
Count(kind) == Cardinality({n \in 1..Len(log) : log[n][1] = kind})

\* C20: one call of capture_screenshot navigates at most twice, the second
\* time only in a handler, and ends and creates a session at most once; and
\* a call that has entered one except clause never enters another.
C20_OneRetryPerCall ==
    /\ [](/\ Count("get") <= 2
          /\ Count("create") <= 1
          /\ Count("quit") <= 1
          /\ Count("get") = 2 => handler \in {"timeout", "driver"}
          /\ handler = "timeout" => (Count("create") = 0 /\ Count("quit") = 0))
    /\ [][(handler # "none" /\ handler' # handler) =>
                (handler' = "none" /\ cpc' = "idle")]_vars

\* The retry of the timeout handler met a driver error: the call ended with
\* it, and the session was not recreated.
C20_Witness ==
    /\ cpc = "done"
    /\ handler = "timeout"
    /\ result = Raised("wde")
    /\ Count("get") = 2
    /\ Count("create") = 0

\* The capture of a retry handler has its window and waits for the snapshot,
\* or has taken it.
RetryShotPcs == {"to_shot", "to_open", "de_shot", "de_open"}

\* C21: in both retry handlers the capture is degraded: the window is set to
\* the page's width and min(H, 15000), for every H; the snapshot is taken
\* once, at the handler's one capture step, and is what the handler returns;
\* and the stitching is never entered, no tile is taken and no composite made.
C21_RetryCaptureDegraded ==
    /\ [](handler \in {"timeout", "driver"} =>
            /\ cpc \notin StitchPcs
            /\ tiles = 0
            /\ full_screenshot = NoSize)
    /\ [](cpc \in RetryShotPcs =>
            win = <<total[1], IF total[2] < 15000 THEN total[2] ELSE 15000>>)
    /\ []((cpc = "done" /\ result.via \in {"timeout_retry", "driver_retry"}) =>
            /\ <<result.w, result.h>> = image
            /\ result.h <= 15000)
    /\ [][(handler' \in {"timeout", "driver"} /\ image' # image /\ cpc' # "idle") =>
            \/ (cpc \in {"to_shot", "de_shot"} /\ image = NoSize /\ image' # NoSize)
            \/ (handler = "none" /\ image' = NoSize)]_vars

\* A page higher than 15000 captured by the timeout handler: one snapshot of
\* a window 15000 high, no stitching.
C21_Witness ==
    /\ cpc = "done"
    /\ handler = "timeout"
    /\ result.via = "timeout_retry"
    /\ total[2] > 15000
    /\ win[2] = 15000
    /\ tiles = 0

(***************************************************************************)
(* The stitched composite, under StitchSpec.                               *)
(***************************************************************************)
\* The pcs of the stitching loop, once the window is resized and the canvas
\* made.
LoopPcs == {"st_scroll", "st_shot", "st_return"}

\* The rows of the canvas a tile <<y, height>> is written to.
TileRows(t) == Paste(t[1], t[2], total[2])

\* C22: the stitching resizes the window to min(1920, W) by 1080 and makes a
\* canvas W by H, which is what it returns; it asks for the offsets 0, 780,
\* 1560, ...; and each tile is pasted at the position read back after the
\* scroll, not at the offset asked for.
C22_TilesPastedWhereScrolled ==
    /\ [](cpc \in LoopPcs =>
            /\ win = <<IF total[1] < 1920 THEN total[1] ELSE 1920, 1080>>
            /\ full_screenshot = total
            /\ offset = 780 * tiles)
    /\ []((cpc = "done" /\ result.via = "stitched") =>
            <<result.w, result.h>> = total)
    /\ [][(tiles' = tiles + 1) =>
            /\ pasted' = TileRows(<<last_scrolled_pos, image'[2]>>)
            /\ tiled'[Len(tiled')][1] = last_scrolled_pos
            /\ image'[1] = win[1]
            /\ offset' = offset + 780]_vars

\* A page 2000 by 1561: the window is 1920 wide, the second tile was asked at
\* 780, read back at 481 and pasted there.
C22_Witness ==
    /\ cpc = "done"
    /\ result = ImageResult(<<2000, 1561>>, "stitched")
    /\ win[1] = 1920
    /\ Len(tiled) = 2
    /\ tiled[2][1] = 481
    /\ pasted = <<481, 1561>>

\* C23: when the position read back equals that of the iteration before, the
\* loop exits without a tile; the first iteration compares with -1 and so
\* takes a tile whenever the page has a row; no two tiles in a row are pasted
\* at one position.
C23_LoopEndsOnRepeatedPosition ==
    /\ [][(cpc = "st_scroll" /\ cpc' = "st_return") =>
            /\ last_scrolled_pos' = last_scrolled_pos
            /\ last_scrolled_pos >= 0
            /\ UNCHANGED <<tiles, tiled, pasted, image, full_screenshot>>]_vars
    /\ [][(cpc = "st_scroll" /\ cpc' = "st_shot") =>
            last_scrolled_pos' # last_scrolled_pos]_vars
    /\ [][(cpc = "st_scroll" /\ tiles = 0 /\ cpc' \in LoopPcs) =>
            cpc' = "st_shot"]_vars
    /\ []((cpc = "st_return" /\ total[2] > 0) => tiles >= 1)
    /\ [](\A n \in 1..(Len(tiled) - 1) : tiled[n][1] # tiled[n + 1][1])

\* The loop left by the position check: rows were still to be asked for, and
\* the position read back was that of the tile before.
C23_Witness ==
    /\ cpc = "st_return"
    /\ offset < total[2]
    /\ tiles = 2
    /\ last_scrolled_pos = tiled[2][1]

\* The greatest element of a set of numbers.
MaxOf(S) == CHOOSE x \in S : \A y \in S : y <= x

\* One past the last row any tile pasted so far has written.
Reach == MaxOf({0} \cup {TileRows(tiled[n])[2] : n \in 1..Len(tiled)})

\* Some tile of the sequence tl has written row r.
Covered(r, tl) ==
    \E n \in 1..Len(tl) : TileRows(tl[n])[1] <= r /\ r < TileRows(tl[n])[2]

\* Every row of the canvas is written by some tile: a first uncovered row, if
\* there is one, is row 0 or the row after some tile.
AllCovered ==
    \A r \in {0} \cup {TileRows(tiled[n])[2] : n \in 1..Len(tiled)} :
        r < total[2] => Covered(r, tiled)

\* C24: a tile is written from the position read back and nowhere else, so a
\* tile pasted below every row written so far leaves the rows in between
\* unwritten; the loop returns the canvas with such rows in it.
C24_JumpLeavesRowsUnwritten ==
    /\ [][(tiles' = tiles + 1 /\ Reach < last_scrolled_pos /\ Reach < total[2]) =>
            /\ Reach < pasted'[1]
            /\ ~Covered(Reach, tiled')]_vars
    /\ [][(cpc = "st_return" /\ cpc' # cpc) =>
            /\ cpc' = "done"
            /\ result' = ImageResult(total, "stitched")
            /\ tiled' = tiled]_vars

\* Two positions in a row more than 1080 apart, and the composite returned
\* with a row no tile has written.
C24_Witness ==
    /\ cpc = "done"
    /\ result.via = "stitched"
    /\ \E n \in 1..(Len(tiled) - 1) : tiled[n + 1][1] - tiled[n][1] > 1080
    /\ ~AllCovered

\* C25: when every position read back is min(offset, max(0, H - 1080)) and
\* every tile is 1080 high, the tiles of the composite returned cover every
\* row from 0 to H.
C25_IdealBrowserCoversAllRows ==
    /\ []((cpc \in {"st_return", "done"} /\ ideal) => AllCovered)
    /\ []((cpc = "st_scroll" /\ ideal) => Reach >= Min(offset, total[2]))

\* A page 2500 high under a browser that scrolls as asked: four tiles, the
\* last two clamped to 1420, and every row written.
C25_Witness ==
    /\ cpc = "done"
    /\ ideal
    /\ total[2] = 2500
    /\ Len(tiled) >= 3
    /\ tiled[3][1] = 1420
    /\ AllCovered

(***************************************************************************)
(* The height-stability stage, under HeightSpec.                           *)
(***************************************************************************)
\* C26: the height-stability stage always ends; it ends as soon as two
\* samples in a row are equal, takes at most ten samples in its loop, one
\* second or more apart, and otherwise ends once ten seconds have passed,
\* whatever heights are sampled.
C26_HeightStageTerminates ==
    /\ <>(hpc \in {"done", "failed"})
    /\ [](samples <= 10)
    /\ [][(samples' = samples + 1) => elapsed' >= elapsed + 1]_vars
    /\ [][(hpc = "test" /\ previous_height = current_height /\ hpc' # hpc) =>
            (hpc' = "done" /\ samples' = samples)]_vars
    /\ [](hpc = "done" => (previous_height = current_height \/ elapsed >= 10))

\* A page whose height never settles: ten samples, no two in a row equal, and
\* the stage has ended.
C26_Witness ==
    /\ hpc = "done"
    /\ samples = 10
    /\ previous_height # current_height

(***************************************************************************)
(* Sessions across captures, under Spec.                                   *)
(***************************************************************************)
\* C27: close never raises: at the end of a domain the per-domain block goes
\* on to its end and not to its except clause, and in the handler of
\* capture_screenshot the next step is the creation of the session, with
\* nothing raised, whether quit failed or not.
C27_CloseNeverRaises ==
    /\ [][(mpc = "close" /\ mpc' # mpc) => mpc' = "domain_end"]_vars
    /\ [][(cpc = "de_close" /\ cpc' # cpc) =>
            /\ cpc' = "de_init"
            /\ result' = result
            /\ mpc' = mpc]_vars

\* quit has raised inside the handler and left the browser running: the
\* handler is at the creation of the new session.
C27_Witness ==
    /\ cpc = "de_init"
    /\ handler = "driver"
    /\ driver.st = "live"
    /\ log[Len(log)] = <<"quit", FALSE>>

FinalContents == [n \in DOMAIN valid_merged_pdfs |-> files[valid_merged_pdfs[n]]]

\* C29: a failure in one domain never stops the run: when main ends every
\* item of the dictionary has been taken; and the final merge reads exactly
\* the merged PDFs of the domains whose merge succeeded, each once.
C29_EveryDomainProcessedAndMerged ==
    bpc = "finished" =>
        /\ taken_domains = Len(domain_urls)
        /\ ~skip_final_merge => FinalContents = merged_ok

\* The paths of a sequence are pairwise distinct.
Distinct(q) == \A m, n \in DOMAIN q : m # n => q[m] # q[n]

\* C30: within a domain no page is written to a path that exists, no file
\* that exists is changed by the writing of a page, and the paths collected
\* in individual_pdfs are pairwise distinct; also for URLs that give the same
\* page name and with --no-clean.
C30_PagePathsDistinct ==
    /\ [](Distinct(individual_pdfs))
    /\ [](bpc = "page_pdf" => pdf_path \notin DOMAIN files)
    /\ [][(bpc = "page_pdf" /\ bpc' = "page_loop") =>
            \A q \in DOMAIN files : q \in DOMAIN files' /\ files'[q] = files[q]]_vars

\* --no-clean with the page PDF of an earlier run in place: three URLs that
\* all give the name te_am, and te_am_1, written to four paths.
C30_Witness ==
    /\ ~clean
    /\ bpc = "page_loop"
    /\ "ex.com/pages/te_am.pdf" \in DOMAIN files
    /\ files["ex.com/pages/te_am.pdf"] = "stale"
    /\ individual_pdfs = << "ex.com/pages/te_am_1.pdf", "ex.com/pages/te_am_2.pdf",
                            "ex.com/pages/te_am_1_1.pdf" >>

====
